---- MODULE Spec2Model ----
(***************************************************************************)
(* DataTablesQuerySetMixin.datatables (src/datatables.py) as a state       *)
(* machine.  One call of datatables(columns, request) on a queryset is     *)
(* followed from its first loop to its return (or to the exception that    *)
(* leaves it).  Python strings are sequences of one-character strings, so  *)
(* that startswith, isdigit, split, replace and int() are computed and not *)
(* assumed.  Python's None is the one-element sequence None below, which   *)
(* is no string of characters.                                             *)
(***************************************************************************)
EXTENDS Integers, Sequences, FiniteSets, TLC

(***************************************************************************)
(* Bounds of the model.                                                    *)
(***************************************************************************)
\* the largest number of rows the queryset holds
MaxRows == 4

(***************************************************************************)
(* Python values and the str / int operations the handler uses.            *)
(***************************************************************************)
None == <<"<None>">>

Digits == {"0", "1", "2", "3", "4", "5", "6", "7", "8", "9"}

DigitVal(c) ==
    CASE c = "0" -> 0 [] c = "1" -> 1 [] c = "2" -> 2 [] c = "3" -> 3
      [] c = "4" -> 4 [] c = "5" -> 5 [] c = "6" -> 6 [] c = "7" -> 7
      [] c = "8" -> 8 [] c = "9" -> 9

\* bool(s) of an optional string: None and '' are false
Truthy(s) == s # None /\ s # <<>>

\* s.startswith(p)
StartsWith(s, p) == Len(s) >= Len(p) /\ SubSeq(s, 1, Len(p)) = p

\* s.isdigit(): non-empty and every character a digit
IsDigit(s) == Len(s) > 0 /\ \A i \in 1..Len(s) : s[i] \in Digits

\* c in s, for a character c
Contains(s, c) == \E i \in 1..Len(s) : s[i] = c

\* needle in hay, for strings
IsSubstring(needle, hay) ==
    \E i \in 0..(Len(hay) - Len(needle)) : SubSeq(hay, i + 1, i + Len(needle)) = needle

RECURSIVE SplitOn(_, _)
\* s.split(sep): the pieces of s between the occurrences of sep, left to right
SplitOn(s, sep) ==
    LET hits == {i \in 1..(Len(s) - Len(sep) + 1) : SubSeq(s, i, i + Len(sep) - 1) = sep}
    IN  IF hits = {} THEN <<s>>
        ELSE LET i == CHOOSE j \in hits : \A k \in hits : j <= k
             IN  <<SubSeq(s, 1, i - 1)>> \o SplitOn(SubSeq(s, i + Len(sep), Len(s)), sep)

RECURSIVE Replace(_, _, _)
\* s.replace(old, new) for a character old and a string new
Replace(s, old, new) ==
    IF s = <<>> THEN <<>>
    ELSE (IF Head(s) = old THEN new ELSE <<Head(s)>>) \o Replace(Tail(s), old, new)

LowerChar(c) ==
    CASE c = "A" -> "a" [] c = "N" -> "n" [] c = "T" -> "t" [] OTHER -> c

\* s.lower(), as the case-insensitive match of icontains applies it
Lower(s) == [i \in 1..Len(s) |-> LowerChar(s[i])]

RECURSIVE DigitsValue(_)
DigitsValue(s) == IF s = <<>> THEN 0 ELSE 10 * DigitsValue(SubSeq(s, 1, Len(s) - 1)) + DigitVal(s[Len(s)])

\* the digits of an int() argument, after its optional sign
Unsigned(s) == IF Len(s) > 0 /\ s[1] \in {"-", "+"} THEN Tail(s) ELSE s

\* int(s): "TypeError" for None, "ValueError" for a string that is no integer literal
IntOutcome(s) ==
    IF s = None THEN "TypeError"
    ELSE IF IsDigit(Unsigned(s)) THEN "ok" ELSE "ValueError"

IntValue(s) ==
    IF Len(s) > 0 /\ s[1] = "-" THEN 0 - DigitsValue(Tail(s)) ELSE DigitsValue(Unsigned(s))

\* d.get(k) of a dict d
Get(d, k) == IF k \in DOMAIN d THEN d[k] ELSE None

\* d[k] = v of a dict d: a present key is overwritten
Put(d, k, v) == [x \in (DOMAIN d) \cup {k} |-> IF x = k THEN v ELSE d[x]]

(***************************************************************************)
(* The caller's side: the column map handed in as `columns` and the        *)
(* queryset `self`.  The map follows the docstring's example: two headers  *)
(* on the same field, a nested field and a callable.  The model's rows     *)
(* carry id, t (a nullable text field) and u (a nullable foreign key to an *)
(* object with the nullable text field n).                                 *)
(***************************************************************************)
Lambda == <<"<lambda>">>

\* callable(f)
Callable(f) == f = Lambda

\* Python's True, the value of an isnull lookup
TrueVal == <<"<True>">>

columns ==
    (<<"T">> :> <<"t">>) @@ (<<"H">> :> <<"t">>) @@
    (<<"U">> :> <<"u", ".", "n">>) @@ (<<"D">> :> <<"c">>) @@ (<<"C">> :> Lambda)

\* a datetime.datetime: the marker, then the digits of YYYYMMDDhhmmss
Created == <<"<datetime>", "2", "0", "1", "5", "0", "3", "0", "7", "0", "9", "0", "5", "0", "0">>

Row(id, t, u) ==
    (<<"i", "d">> :> id) @@ (<<"t">> :> t) @@ (<<"u">> :> u) @@ (<<"c">> :> Created)

User(n) == (<<"i", "d">> :> <<"9">>) @@ (<<"n">> :> n)

\* the rows querysets are made of
Pool ==
    << Row(<<"1">>, <<"a">>, None),
       Row(<<"2">>, <<"7">>, User(<<"a">>)),
       Row(<<"3">>, None, User(None)),
       Row(<<"4">>, <<"A", "7">>, User(<<"7">>)) >>

\* the queryset of the first n rows (the pool repeats beyond its length)
QuerySetOf(n) == [i \in 1..n |-> Pool[((i - 1) % Len(Pool)) + 1]]

QuerySets == {QuerySetOf(n) : n \in 0..MaxRows}

\* the callable of the column map, applied to a row
Extractor(item) == item[<<"i", "d">>]

(***************************************************************************)
(* nested_getattr and the queryset operations the handler calls.           *)
(***************************************************************************)
AttributeError == <<"<AttributeError>">>

RECURSIVE Traverse(_, _)
\* the loop of nested_getattr over the attribute names left
Traverse(obj, attributes) ==
    IF attributes = <<>> THEN obj
    ELSE IF obj = None THEN obj
    ELSE IF obj = AttributeError \/ Head(attributes) \notin DOMAIN obj THEN AttributeError
    ELSE Traverse(obj[Head(attributes)], Tail(attributes))

nested_getattr(obj, attr) == Traverse(obj, SplitOn(attr, <<".">>))

LookupSep == <<"_", "_">>

\* the lookup (last part) and the field path (the parts before it) of a keyword
LookupOf(key) == LET parts == SplitOn(key, LookupSep) IN parts[Len(parts)]

PathOf(key) == LET parts == SplitOn(key, LookupSep) IN SubSeq(parts, 1, Len(parts) - 1)

\* whether a row satisfies field__lookup=val; a NULL matches only isnull
Matches(item, key, val) ==
    LET v == Traverse(item, PathOf(key))
        lookup == LookupOf(key)
    IN  IF lookup = <<"i", "s", "n", "u", "l", "l">> THEN (v = None) <=> (val = TrueVal)
        ELSE IF v = None THEN FALSE
        ELSE IF lookup = <<"e", "x", "a", "c", "t">> THEN v = val
        ELSE IF lookup = <<"i", "n">> THEN \E i \in 1..Len(val) : val[i] = v
        ELSE IsSubstring(Lower(val), Lower(v))

\* every keyword of a dict holds of the row (the keywords are joined by AND)
MatchesAll(item, cond) == \A k \in DOMAIN cond : Matches(item, k, cond[k])

\* qs.filter(**cond)
Filter(qs, cond) == LET Keep(item) == MatchesAll(item, cond) IN SelectSeq(qs, Keep)

\* qs.exclude(**cond): NOT (k1 AND k2 AND ...); no keyword excludes nothing
Exclude(qs, cond) ==
    LET Keep(item) == DOMAIN cond = {} \/ ~MatchesAll(item, cond) IN SelectSeq(qs, Keep)

\* qs.filter(q) for the Q object built with |=: its children are joined by OR,
\* and the empty Q() filters nothing
FilterQ(qs, q) ==
    LET Keep(item) == q = <<>> \/ \E i \in 1..Len(q) : Matches(item, q[i][1], q[i][2])
    IN  SelectSeq(qs, Keep)

\* the collation of the characters
Alphabet ==
    << "!", ",", "-", ".", "0", "1", "2", "3", "4", "5", "6", "7", "8", "9",
       "A", "C", "D", "H", "N", "T", "U", "_", "a", "b", "e", "n", "o", "x" >>

Ord(c) == CHOOSE i \in 1..Len(Alphabet) : Alphabet[i] = c

StrLess(a, b) ==
    \E i \in 1..(Len(a) + 1) :
        /\ i <= Len(b)
        /\ SubSeq(a, 1, i - 1) = SubSeq(b, 1, i - 1)
        /\ i = Len(a) + 1 \/ Ord(a[i]) < Ord(b[i])

RECURSIVE Compare(_, _, _, _)
\* how two rows stand under the order_by tokens: "lt", "gt" or "eq".  Whether a
\* NULL sorts above or below every value is the database's choice, nullsHigh.
Compare(x, y, tokens, nullsHigh) ==
    IF tokens = <<>> THEN "eq"
    ELSE LET tok == Head(tokens)
             desc == StartsWith(tok, <<"-">>)
             path == SplitOn(IF desc THEN Tail(tok) ELSE tok, LookupSep)
             vx == Traverse(x, path)
             vy == Traverse(y, path)
             less == IF vx = None THEN ~nullsHigh
                     ELSE IF vy = None THEN nullsHigh
                     ELSE StrLess(vx, vy)
         IN  IF vx = vy THEN Compare(x, y, Tail(tokens), nullsHigh)
             ELSE IF less <=> ~desc THEN "lt" ELSE "gt"

RECURSIVE Arrangements(_)
\* the sequences listing every element of a set once
Arrangements(S) ==
    IF S = {} THEN {<<>>}
    ELSE UNION {{<<x>> \o p : p \in Arrangements(S \ {x})} : x \in S}

\* qs.order_by(*tokens): every arrangement of the rows the tokens allow; rows
\* the tokens do not tell apart come in any order
OrderBy(qs, tokens) ==
    LET n == Len(qs)
        views == {[i \in 1..n |-> qs[p[i]]] : p \in Arrangements(1..n)}
    IN  {v \in views : \E nullsHigh \in BOOLEAN : \A i, j \in 1..n :
                          i < j => Compare(v[i], v[j], tokens, nullsHigh) # "gt"}

\* data[offset: offset + limit]; a queryset refuses a negative bound
SliceRefused(off, lim) == off < 0 \/ off + lim < 0

\* Slice with its upper bound taken as inclusive
SliceThrough(d, off, lim) ==
    LET lo == IF off < Len(d) THEN off + 1 ELSE Len(d) + 1
        hi == IF off + lim + 1 < Len(d) THEN off + lim + 1 ELSE Len(d)
    IN  SubSeq(d, lo, hi)

Slice(d, off, lim) ==
    LET lo == IF off < Len(d) THEN off + 1 ELSE Len(d) + 1
        hi == IF off + lim < Len(d) THEN off + lim ELSE Len(d)
    IN  SubSeq(d, lo, hi)

(***************************************************************************)
(* The request.  request.GET is a flat dict; the model keeps it grouped:   *)
(* cols[c] holds the values of the keys columns[c][...], ords[j] those of  *)
(* order[j][...], and an absent key reads as None, as params.get gives it. *)
(***************************************************************************)
VARIABLES
    params,             \* request.GET
    queryset,           \* self
    pc,                 \* where the call stands
    scanned,            \* columns[c][searchable] keys the first loop has seen
    or_condition,       \* the children of the Q object, as <<keyword, value>>
    and_condition,      \* dict: keyword -> value
    and_not_condition,  \* dict: keyword -> value
    oscanned,           \* order[j][column] keys the second loop has seen
    order_by,           \* list of order_by tokens
    limit,
    offset,
    data,               \* the queryset after the filters, the order and the slice
    filtered_cnt,
    rows,
    result              \* what the call gave: nothing yet, a return or a raise

vars ==
    << params, queryset, pc, scanned, or_condition, and_condition, and_not_condition,
       oscanned, order_by, limit, offset, data, filtered_cnt, rows, result >>

EmptyDict == [k \in {} |-> <<>>]

\* params.get('columns[c][field]')
ColParam(c, field) == IF c \in DOMAIN params.cols THEN params.cols[c][field] ELSE None

\* the keys matching ^columns\[(.+)\]\[searchable\]$
SearchableKeys == {c \in DOMAIN params.cols : params.cols[c].searchable # None}

\* the keys matching ^order\[(.+)\]\[column\]$
OrderKeys == DOMAIN params.ords

\* columns[c][name], or columns[c][data] when that is empty or absent
ColName(c) ==
    IF Truthy(ColParam(c, "name")) THEN ColParam(c, "name") ELSE ColParam(c, "data")

\* columns.get(col_name)
ModelFieldOf(c) == Get(columns, ColName(c))

\* `if not model_field or callable(model_field): continue` lets these through
Usable(model_field) == Truthy(model_field) /\ ~Callable(model_field)

\* model_field.replace('.', '__')
FieldPath(model_field) == Replace(model_field, ".", LookupSep)

(***************************************************************************)
(* The first loop: global search and individual column filters.            *)
(***************************************************************************)
TrueStr == <<"t", "r", "u", "e">>

NoneStr == <<"N", "o", "n", "e">>

IsNull == <<"i", "s", "n", "u", "l", "l">>

Exact == <<"e", "x", "a", "c", "t">>

In == <<"i", "n">>

IContains == <<"i", "c", "o", "n", "t", "a", "i", "n", "s">>

\* search_val.startswith('!')
Negated(search_val) == StartsWith(search_val, <<"!">>)

\* search_val[1:] when negated
Stripped(search_val) == IF Negated(search_val) THEN Tail(search_val) ELSE search_val

\* Method without its first branch: 'None' is matched as text
MethodWithoutNone(v) ==
    IF IsDigit(v) THEN Exact
    ELSE IF Contains(v, ",") THEN In
    ELSE IContains

\* the if / elif chain choosing the lookup, on the stripped value
Method(v) ==
    IF v = NoneStr THEN IsNull
    ELSE IF IsDigit(v) THEN Exact
    ELSE IF Contains(v, ",") THEN In
    ELSE IContains

\* the value the chain leaves in search_val
LookupValue(v) ==
    IF v = NoneStr THEN TrueVal
    ELSE IF IsDigit(v) THEN v
    ELSE IF Contains(v, ",") THEN SplitOn(v, <<",">>)
    ELSE v

\* '%s__%s' % (model_field, method)
Keyword(model_field, method) == model_field \o LookupSep \o method

\* HasColumnFilter as `if search_val is not None:`
HasColumnFilterNotNone(c) == ColParam(c, "search") # None

\* `if search_val:` taken
HasColumnFilter(c) == Truthy(ColParam(c, "search"))

\* `elif global_search_val:` taken
JoinsGlobalSearch(c) == ~HasColumnFilter(c) /\ Truthy(params.search_value)

\* the column passes `col and val == 'true'` and the model_field check
Searchable(c) == ColParam(c, "searchable") = TrueStr /\ Usable(ModelFieldOf(c))

SearchStep(c) ==
    /\ pc = "search"
    /\ c \in SearchableKeys \ scanned
    /\ scanned' = scanned \cup {c}
    /\ LET model_field == FieldPath(ModelFieldOf(c))
           search_val == Stripped(ColParam(c, "search"))
           key == Keyword(model_field, Method(search_val))
       IN  IF Searchable(c) /\ HasColumnFilter(c)
           THEN IF Negated(ColParam(c, "search"))
                THEN /\ and_not_condition' = Put(and_not_condition, key, LookupValue(search_val))
                     /\ UNCHANGED << and_condition, or_condition >>
                ELSE /\ and_condition' = Put(and_condition, key, LookupValue(search_val))
                     /\ UNCHANGED << and_not_condition, or_condition >>
           ELSE IF Searchable(c) /\ JoinsGlobalSearch(c)
           THEN /\ or_condition' =
                       Append(or_condition, <<Keyword(model_field, IContains), params.search_value>>)
                /\ UNCHANGED << and_condition, and_not_condition >>
           ELSE UNCHANGED << and_condition, and_not_condition, or_condition >>
    /\ UNCHANGED << params, queryset, pc, oscanned, order_by, limit, offset, data,
                    filtered_cnt, rows, result >>

SearchEnd ==
    /\ pc = "search"
    /\ scanned = SearchableKeys
    /\ pc' = "sort"
    /\ UNCHANGED << params, queryset, scanned, or_condition, and_condition,
                    and_not_condition, oscanned, order_by, limit, offset, data,
                    filtered_cnt, rows, result >>

(***************************************************************************)
(* The second loop: multi-column sorting.                                  *)
(***************************************************************************)
AscStr == <<"a", "s", "c">>

DescStr == <<"d", "e", "s", "c">>

\* list.insert(i, x): a negative i counts from the end, and i is clamped to the list
ListInsert(list, i, x) ==
    LET n == Len(list)
        k == IF i < 0 THEN (IF i + n < 0 THEN 0 ELSE i + n) ELSE (IF i > n THEN n ELSE i)
    IN  SubSeq(list, 1, k) \o <<x>> \o SubSeq(list, k + 1, n)

\* params.get('order[j][dir]')
OrderDir(j) == params.ords[j].dir

\* the try block: int(idx) succeeds and col_dir is 'asc' or 'desc'
OrderValid(j) == IntOutcome(j) = "ok" /\ OrderDir(j) \in {AscStr, DescStr}

\* Orderable with the check of the orderable flag left out
OrderableUnchecked(val) == val = val

\* params.get('columns[val][orderable]') == 'true'
Orderable(val) == ColParam(val, "orderable") = TrueStr

\* the entry reaches order_by.insert
OrderAccepted(j) ==
    /\ OrderValid(j)
    /\ Orderable(params.ords[j].column)
    /\ Usable(ModelFieldOf(params.ords[j].column))

\* the token inserted for an accepted entry
OrderToken(j) ==
    LET model_field == FieldPath(ModelFieldOf(params.ords[j].column))
    IN  IF OrderDir(j) = DescStr THEN <<"-">> \o model_field ELSE model_field

\* order_by after the loop body has run for order[j][column]
OrderInsert(list, j) ==
    IF OrderAccepted(j) THEN ListInsert(list, IntValue(j), OrderToken(j)) ELSE list

SortStep(j) ==
    /\ pc = "sort"
    /\ j \in OrderKeys \ oscanned
    /\ oscanned' = oscanned \cup {j}
    /\ order_by' = OrderInsert(order_by, j)
    /\ UNCHANGED << params, queryset, pc, scanned, or_condition, and_condition,
                    and_not_condition, limit, offset, data, filtered_cnt, rows, result >>

SortEnd ==
    /\ pc = "sort"
    /\ oscanned = OrderKeys
    /\ pc' = "page"
    /\ UNCHANGED << params, queryset, scanned, or_condition, and_condition,
                    and_not_condition, oscanned, order_by, limit, offset, data,
                    filtered_cnt, rows, result >>

(***************************************************************************)
(* Pagination, the queryset actions, the rows and the response.            *)
(***************************************************************************)
DefaultLimit == 10

DefaultOffset == 0

NoResult ==
    [kind |-> "none", exc |-> "", draw |-> 0, data |-> <<>>,
     recordsTotal |-> 0, recordsFiltered |-> 0]

Raise(exc) == [NoResult EXCEPT !.kind = "raise", !.exc = exc]

Return(draw, d, total, filtered) ==
    [kind |-> "return", exc |-> "", draw |-> draw, data |-> d,
     recordsTotal |-> total, recordsFiltered |-> filtered]

\* the try block of the pagination: only ValueError is caught, and the
\* assignments made before the exception stay
Pagination ==
    LET length == IntOutcome(params.length)
        start == IntOutcome(params.start)
        override == IntOutcome(params.limit)
    IN  IF length = "TypeError" THEN [exc |-> "TypeError", limit |-> DefaultLimit, offset |-> DefaultOffset]
        ELSE IF length = "ValueError" THEN [exc |-> "", limit |-> DefaultLimit, offset |-> DefaultOffset]
        ELSE IF start = "TypeError" THEN [exc |-> "TypeError", limit |-> IntValue(params.length), offset |-> DefaultOffset]
        ELSE IF start = "ValueError" THEN [exc |-> "", limit |-> IntValue(params.length), offset |-> DefaultOffset]
        ELSE IF IntValue(params.length) = -1 /\ Truthy(params.limit) /\ override = "ok"
             THEN [exc |-> "", limit |-> IntValue(params.limit), offset |-> IntValue(params.start)]
        ELSE [exc |-> "", limit |-> IntValue(params.length), offset |-> IntValue(params.start)]

Paginate ==
    /\ pc = "page"
    /\ limit' = Pagination.limit
    /\ offset' = Pagination.offset
    /\ IF Pagination.exc = ""
       THEN pc' = "query" /\ UNCHANGED result
       ELSE pc' = "done" /\ result' = Raise(Pagination.exc)
    /\ UNCHANGED << params, queryset, scanned, or_condition, and_condition,
                    and_not_condition, oscanned, order_by, data, filtered_cnt, rows >>

\* self.filter(**and_condition).exclude(**and_not_condition).filter(or_condition)
Filtered(qs) == FilterQ(Exclude(Filter(qs, and_condition), and_not_condition), or_condition)

\* the page of a view: sliced only when limit > 0
Page(view) == IF limit > 0 THEN Slice(view, offset, limit) ELSE view

Query ==
    /\ pc = "query"
    /\ \E view \in OrderBy(Filtered(queryset), order_by) :
          /\ filtered_cnt' = Len(view)
          /\ IF limit > 0 /\ SliceRefused(offset, limit)
             THEN data' = data /\ pc' = "done" /\ result' = Raise("AssertionError")
             ELSE data' = Page(view) /\ pc' = "rows" /\ UNCHANGED result
    /\ UNCHANGED << params, queryset, scanned, or_condition, and_condition,
                    and_not_condition, oscanned, order_by, limit, offset, rows >>

IsDatetime(val) == Len(val) > 0 /\ val[1] = "<datetime>"

\* val.strftime('%Y-%m-%d %H:%M:%S')
Strftime(val) ==
    SubSeq(val, 2, 5) \o <<"-">> \o SubSeq(val, 6, 7) \o <<"-">> \o SubSeq(val, 8, 9)
      \o <<" ">> \o SubSeq(val, 10, 11) \o <<":">> \o SubSeq(val, 12, 13)
      \o <<":">> \o SubSeq(val, 14, 15)

\* the value of one cell of a row
Cell(item, field) ==
    LET val == IF Callable(field) THEN Extractor(item) ELSE nested_getattr(item, field)
    IN  IF IsDatetime(val) THEN Strftime(val) ELSE val

RowOf(item) == [attr \in DOMAIN columns |-> Cell(item, columns[attr])]

Materialize ==
    /\ pc = "rows"
    /\ IF \E i \in 1..Len(data) : \E attr \in DOMAIN columns :
             Cell(data[i], columns[attr]) = AttributeError
       THEN rows' = rows /\ pc' = "done" /\ result' = Raise("AttributeError")
       ELSE rows' = [i \in 1..Len(data) |-> RowOf(data[i])] /\ pc' = "draw" /\ UNCHANGED result
    /\ UNCHANGED << params, queryset, scanned, or_condition, and_condition,
                    and_not_condition, oscanned, order_by, limit, offset, data,
                    filtered_cnt >>

\* the response: the empty one when int(params.get('draw')) fails
Response ==
    IF IntOutcome(params.draw) = "ok"
    THEN Return(IntValue(params.draw), rows, Len(queryset), filtered_cnt)
    ELSE Return(0, <<>>, 0, 0)

Draw ==
    /\ pc = "draw"
    /\ result' = Response
    /\ pc' = "done"
    /\ UNCHANGED << params, queryset, scanned, or_condition, and_condition,
                    and_not_condition, oscanned, order_by, limit, offset, data,
                    filtered_cnt, rows >>

Next ==
    \/ \E c \in DOMAIN params.cols : SearchStep(c)
    \/ SearchEnd
    \/ \E j \in DOMAIN params.ords : SortStep(j)
    \/ SortEnd
    \/ Paginate
    \/ Query
    \/ Materialize
    \/ Draw

(***************************************************************************)
(* The calls explored.  Three families of requests, one per part of the    *)
(* handler: Spec varies the pagination and draw parameters, SpecSearch the *)
(* column headers and search values, SpecSort the order entries.           *)
(***************************************************************************)
Column(name, d, searchable, orderable, search) ==
    [name |-> name, data |-> d, searchable |-> searchable, orderable |-> orderable,
     search |-> search]

Order(column, dir) == [column |-> column, dir |-> dir]

Request(search_value, cols, ords, length, start, lim, draw) ==
    [search_value |-> search_value, cols |-> cols, ords |-> ords, length |-> length,
     start |-> start, limit |-> lim, draw |-> draw]

\* the state at the first line of datatables(columns, request)
Called(request, qs) ==
    /\ params = request
    /\ queryset = qs
    /\ pc = "search"
    /\ scanned = {}
    /\ or_condition = <<>>
    /\ and_condition = EmptyDict
    /\ and_not_condition = EmptyDict
    /\ oscanned = {}
    /\ order_by = <<>>
    /\ limit = DefaultLimit
    /\ offset = DefaultOffset
    /\ data = <<>>
    /\ filtered_cnt = 0
    /\ rows = <<>>
    /\ result = NoResult

FalseStr == <<"f", "a", "l", "s", "e">>

OneOrder == (<<"0">> :> Order(<<"0">>, AscStr))

LengthValues == {None, <<"x">>, <<"-", "1">>, <<"0">>, <<"1">>, <<"2">>}

StartValues == {None, <<"x">>, <<"0">>, <<"1">>, <<"-", "1">>}

LimitValues == {None, <<>>, <<"1">>, <<"2">>, <<"x">>}

DrawValues == {None, <<"x">>, <<"7">>}

PageRequests ==
    { Request(None, (<<"0">> :> Column(<<>>, <<"T">>, TrueStr, TrueStr, s)), OneOrder,
              l, st, li, d) :
        s \in {<<>>, <<"a">>}, l \in LengthValues, st \in StartValues,
        li \in LimitValues, d \in DrawValues }

Init == \E request \in PageRequests, qs \in QuerySets : Called(request, qs)

Spec == Init /\ [][Next]_vars

\* the name, data and searchable values of a column header
Headers ==
    { <<None, <<"T">>, TrueStr>>, <<<<>>, <<"H">>, TrueStr>>, <<<<"U">>, <<"x">>, TrueStr>>,
      <<None, <<"C">>, TrueStr>>, <<None, <<"x">>, TrueStr>>, <<None, <<"T">>, FalseStr>>,
      <<None, <<"T">>, None>> }

SearchValues ==
    { None, <<>>, <<"a">>, <<"!", "a">>, NoneStr, <<"!">> \o NoneStr, <<"7">>, <<"!", "7">>,
      <<"a", ",", "7">>, <<"!", "a", ",", "7">>, <<"!">>, <<"b">> }

SearchColumns == {Column(h[1], h[2], h[3], TrueStr, s) : h \in Headers, s \in SearchValues}

\* a second column, on the field of header T or on the nested field
SecondColumns ==
    {Column(h[1], h[2], TrueStr, TrueStr, s) :
        h \in {<<<<>>, <<"H">>>>, <<<<"U">>, <<"x">>>>}, s \in SearchValues}

GlobalValues == {None, <<>>, <<"a">>}

SearchRequests ==
    { Request(g, (<<"0">> :> c0) @@ (<<"1">> :> c1), OneOrder,
              <<"-", "1">>, <<"0">>, None, <<"1">>) :
        g \in GlobalValues, c0 \in SearchColumns, c1 \in SecondColumns }

InitSearch == \E request \in SearchRequests : Called(request, QuerySetOf(MaxRows))

SpecSearch == InitSearch /\ [][Next]_vars

\* the columns the order entries refer to: two sortable fields, a callable,
\* a header that is not orderable and a header the map does not know
SortColumns ==
    (<<"0">> :> Column(None, <<"T">>, TrueStr, TrueStr, None)) @@
    (<<"1">> :> Column(<<"U">>, <<"x">>, None, TrueStr, None)) @@
    (<<"2">> :> Column(None, <<"C">>, None, TrueStr, None)) @@
    (<<"3">> :> Column(None, <<"H">>, None, FalseStr, None)) @@
    (<<"4">> :> Column(None, <<"x">>, None, TrueStr, None))

OrderIds == {<<"0">>, <<"1">>, <<"2">>}

OrderValues ==
    { Order(<<"0">>, AscStr), Order(<<"0">>, DescStr), Order(<<"1">>, DescStr),
      Order(<<"2">>, AscStr), Order(<<"3">>, AscStr), Order(<<"4">>, DescStr),
      Order(<<"0">>, <<"u", "p">>), Order(<<"1">>, None), Order(<<"9">>, AscStr) }

\* an entry whose index is no integer, present or not
BadIndexOrders == {EmptyDict, (<<"x">> :> Order(<<"0">>, AscStr))}

SortRequests ==
    { Request(None, SortColumns, ords @@ bad, <<"2">>, <<"0">>, None, <<"1">>) :
        ords \in UNION {[ids -> OrderValues] : ids \in SUBSET OrderIds},
        bad \in BadIndexOrders }

InitSort == \E request \in SortRequests : Called(request, QuerySetOf(MaxRows))

SpecSort == InitSort /\ [][Next]_vars

(***************************************************************************)
(* The claims.                                                             *)
(***************************************************************************)
Done == pc = "done"

\* the keyword ends with the given lookup
EndsWith(s, p) == Len(s) >= Len(p) /\ SubSeq(s, Len(s) - Len(p) + 1, Len(s)) = p

Returned == Done /\ result.kind = "return"

\* the int() argument parses (what the claims call a parseable parameter)
Parses(s) == s # None /\ IsDigit(Unsigned(s))

EmptyEnvelope ==
    [kind |-> "return", exc |-> "", draw |-> 0, data |-> <<>>,
     recordsTotal |-> 0, recordsFiltered |-> 0]

\* C1: a call whose `draw` is absent or no integer returns exactly
\* {draw: 0, data: [], recordsTotal: 0, recordsFiltered: 0} and raises nothing,
\* whatever the other parameters and the collection are.
C1_UnparseableDrawGivesEmptyEnvelope ==
    (Done /\ ~Parses(params.draw)) => result = EmptyEnvelope

\* C3: when `length` is absent or no integer the page size is 10, when `start`
\* is absent or no integer the offset is 0, and in each of these cases the
\* call returns a response envelope instead of raising.
C3_PaginationDefaultsWithoutRaising ==
    Done =>
        /\ ~Parses(params.length) => (limit = 10 /\ result.kind = "return")
        /\ ~Parses(params.start) => (offset = 0 /\ result.kind = "return")

\* C4: with `length` = -1 and a `limit` parameter holding a positive integer N,
\* the returned data has at most N rows, whatever `start` is.
C4_LimitOverrideCapsRows ==
    (/\ Returned
     /\ params.length = <<"-", "1">>
     /\ Parses(params.limit)
     /\ IntValue(params.limit) > 0)
        => Len(result.data) <= IntValue(params.limit)

\* C5: in every envelope returned for a parseable `draw`, recordsFiltered <=
\* recordsTotal, len(data) <= recordsFiltered, len(data) <= limit when the
\* effective limit is > 0, and len(data) = recordsFiltered when it is <= 0.
C5_EnvelopeCounts ==
    (Returned /\ Parses(params.draw)) =>
        /\ result.recordsFiltered <= result.recordsTotal
        /\ Len(result.data) <= result.recordsFiltered
        /\ limit > 0 => Len(result.data) <= limit
        /\ limit <= 0 => Len(result.data) = result.recordsFiltered

\* C5 witness: a returned page that is full and smaller than the filtered set,
\* itself smaller than the collection.
C5_Witness ==
    /\ Returned
    /\ Parses(params.draw)
    /\ limit > 0
    /\ Len(result.data) = limit
    /\ Len(result.data) < result.recordsFiltered
    /\ result.recordsFiltered < result.recordsTotal

\* what the claims say of one order[j] entry, read from the request alone
EntryColumn(j) == params.ords[j].column

EntryMapped(j) ==
    /\ ColName(EntryColumn(j)) \in DOMAIN columns
    /\ columns[ColName(EntryColumn(j))] # Lambda

EntryQualifies(j) ==
    /\ Parses(j)
    /\ params.ords[j].dir \in {AscStr, DescStr}
    /\ ColParam(EntryColumn(j), "orderable") = TrueStr
    /\ EntryMapped(j)

\* the field path of the entry's column in the collection's nested syntax,
\* with a leading '-' for a descending entry
EntryToken(j) ==
    LET path == Replace(columns[ColName(EntryColumn(j))], ".", <<"_", "_">>)
    IN  IF params.ords[j].dir = DescStr THEN <<"-">> \o path ELSE path

\* a sequence with its k-th element taken out
Without(seq, k) == SubSeq(seq, 1, k - 1) \o SubSeq(seq, k + 1, Len(seq))

\* C2: once the order loop is over, order_by lists the accepted entries in
\* increasing order of their order index, in whatever order the parameters
\* were iterated.
C2_SortSequenceFollowsIndex ==
    (pc # "search" /\ pc # "sort") =>
        LET accepted == {j \in OrderKeys : EntryQualifies(j)}
        IN  \E f \in Arrangements(accepted) :
               /\ \A i \in 1..(Len(f) - 1) : IntValue(f[i]) < IntValue(f[i + 1])
               /\ order_by = [i \in 1..Len(f) |-> EntryToken(f[i])]

\* C9: an order[j] entry adds a token to order_by only if j is an integer, its
\* direction is asc or desc, its column is orderable and the column's name
\* maps to a field path that is no callable; any other entry leaves order_by
\* and the other entries as they are and raises nothing; the token added is
\* the field path, prefixed with '-' for desc, and the entries already there
\* keep their order.
C9_OrderEntryFilter ==
    [][\A j \in OrderKeys :
          (pc = "sort" /\ j \notin oscanned /\ j \in oscanned') =>
              /\ order_by' # order_by => EntryQualifies(j)
              /\ ~EntryQualifies(j) =>
                    (order_by' = order_by /\ pc' = "sort" /\ result' = result)
              /\ EntryQualifies(j) =>
                    \E k \in 1..Len(order_by') :
                        /\ order_by'[k] = EntryToken(j)
                        /\ Without(order_by', k) = order_by]_vars

\* C9 witness: the loop is over, a descending entry on the nested field and an
\* ascending one were accepted, and a third entry was dropped.
C9_Witness ==
    /\ pc = "page"
    /\ Len(order_by) = 2
    /\ \E i \in 1..2 : order_by[i] = <<"-", "u", "_", "_", "n">>
    /\ \E i \in 1..2 : order_by[i] = <<"t">>
    /\ Cardinality(oscanned) > 2

\* what the claims say of one column, read from the request alone
ColumnMapped(c) == ColName(c) \in DOMAIN columns /\ columns[ColName(c)] # Lambda

\* a searchable, mapped, non-computed column
ColumnFilterable(c) == ColParam(c, "searchable") = TrueStr /\ ColumnMapped(c)

\* it carries a non-empty per-column search value
ColumnHasValue(c) == ColParam(c, "search") # None /\ ColParam(c, "search") # <<>>

ColumnNegated(c) == ColumnHasValue(c) /\ Head(ColParam(c, "search")) = "!"

\* the value after one leading '!' is taken off
ColumnValue(c) ==
    IF ColumnNegated(c) THEN Tail(ColParam(c, "search")) ELSE ColParam(c, "search")

NonNegativeInteger(v) == v # <<>> /\ \A i \in 1..Len(v) : v[i] \in Digits

HasComma(v) == \E i \in 1..Len(v) : v[i] = ","

\* the operator and the comparison value the rules of C7 give, first match first
RuleOperator(v) ==
    CASE v = <<"N", "o", "n", "e">> -> <<"i", "s", "n", "u", "l", "l">>
      [] v # <<"N", "o", "n", "e">> /\ NonNegativeInteger(v) -> <<"e", "x", "a", "c", "t">>
      [] v # <<"N", "o", "n", "e">> /\ ~NonNegativeInteger(v) /\ HasComma(v) -> <<"i", "n">>
      [] OTHER -> <<"i", "c", "o", "n", "t", "a", "i", "n", "s">>

RuleValue(v) ==
    CASE v = <<"N", "o", "n", "e">> -> TrueVal
      [] v # <<"N", "o", "n", "e">> /\ ~NonNegativeInteger(v) /\ HasComma(v) -> SplitOn(v, <<",">>)
      [] OTHER -> v

ColumnPath(c) == Replace(columns[ColName(c)], ".", <<"_", "_">>)

\* the condition of the column: field path, "__", operator
ColumnKeyword(c) == ColumnPath(c) \o <<"_", "_">> \o RuleOperator(ColumnValue(c))

\* a row meets the (un-negated) condition of the column
MeetsColumn(item, c) == Matches(item, ColumnKeyword(c), RuleValue(ColumnValue(c)))

\* C6: no returned row matches the un-negated condition of a column whose
\* per-column search value is negated, also when several columns are negated.
C6_NegatedColumnsExcluded ==
    Returned =>
        \A c \in DOMAIN params.cols :
            (ColumnFilterable(c) /\ ColumnNegated(c)) =>
                \A i \in 1..Len(data) : ~MeetsColumn(data[i], c)

\* C10: every returned row meets the condition of every searchable, mapped,
\* non-computed column with a non-empty, non-negated search value, also when
\* two headers map to the same field path with the same operator.
C10_ColumnFiltersConjunctive ==
    Returned =>
        \A c \in DOMAIN params.cols :
            (ColumnFilterable(c) /\ ColumnHasValue(c) /\ ~ColumnNegated(c)) =>
                \A i \in 1..Len(data) : MeetsColumn(data[i], c)

C8_GlobalSearchPerColumn ==
    [][\A c \in DOMAIN params.cols :
          (/\ pc = "search" /\ c \notin scanned /\ c \in scanned'
           /\ params.search_value # None /\ params.search_value # <<>>
           /\ ColumnFilterable(c)) =>
              LET joined == <<ColumnPath(c) \o <<"_", "_", "i", "c", "o", "n", "t", "a", "i", "n", "s">>,
                              params.search_value>>
              IN  IF ColumnHasValue(c)
                  THEN or_condition' = or_condition
                  ELSE or_condition' = Append(or_condition, joined)]_vars

\* C8 witness: the loop is over under a global search value; one column kept
\* its own filter and the other joined the OR group.
C8_Witness ==
    /\ pc = "sort"
    /\ params.search_value = <<"a">>
    /\ Len(or_condition) = 1
    /\ DOMAIN and_condition # {}
    /\ \E c \in DOMAIN params.cols : ColumnFilterable(c) /\ ColumnHasValue(c)

====
